---- MODULE Spec2Model ----
(***************************************************************************)
(* The UDP-to-audio relay script play-1760214105997-759986325.py as a      *)
(* state machine.  The program counter pc names the source line of the     *)
(* statement about to run ("L14" .. "L37", then "exited").  Every          *)
(* statement is one action; an exception (a failing call, or a             *)
(* KeyboardInterrupt delivered by the interpreter before the statement     *)
(* runs) is routed the way Python routes it through try/except/finally.    *)
(***************************************************************************)
EXTENDS Integers, Sequences, FiniteSets

VARIABLES
    pc,        \* line of the next statement, or "exited"
    exc,       \* exception in flight: "none", "KeyboardInterrupt", "error"
    pa,        \* p      : "none", "live", "terminated"
    stream,    \* stream : "none", "open", "stopped", "closed"
    sock,      \* sock   : "none", "created", "bound", "closed"
    data,      \* the local variable data (last payload recvfrom returned)
    sent,      \* datagrams the network delivered to recvfrom, in order
    written,   \* arguments of the stream.write calls issued, in order
    released,  \* release calls of the finally block that returned, in order
    raised     \* exceptions raised so far: [kind, at], in order

vars == <<pc, exc, pa, stream, sock, data, sent, written, released, raised>>

----------------------------------------------------------------------------
(* Program constants *)

CHANNELS == 2

SampleWidth == 2

CHUNK_SIZE == 1024

RECV_BUFSIZE == 4096

BytesPerFrame == CHANNELS * SampleWidth

----------------------------------------------------------------------------
(* Bounds and inputs *)

MaxDatagrams == 3

Fill(n) == [i \in 1..n |-> i % 256]

ScenarioPayload == <<0, 1, 0, 1>>

Datagrams ==
    { <<>>, ScenarioPayload, Fill(RECV_BUFSIZE), Fill(RECV_BUFSIZE + 1) }

----------------------------------------------------------------------------
(* Control structure *)

SetupPcs == {"L14", "L15", "L22", "L23", "L24"}

TryPcs == {"L28", "L29", "L30"}

HandlerPcs == {"L31", "L32"}

FinallyPcs == {"L34", "L35", "L36", "L37"}

FallibleCalls == {"L14", "L15", "L22", "L23", "L28", "L30", "L34", "L35", "L36"}

ReleaseOrder == <<"stop_stream", "close", "terminate", "sock.close">>

Min(a, b) == IF a <= b THEN a ELSE b

Recvfrom_NoLimit(d, bufsize) == d

\* sock.recvfrom(bufsize) on a datagram socket (POSIX): the first bufsize
\* bytes of the datagram, the excess is discarded.
Recvfrom(d, bufsize) == SubSeq(d, 1, Min(Len(d), bufsize))

Route_KeepReleasing(at) ==
    IF at \in SetupPcs THEN "exited"
    ELSE IF at \in TryPcs THEN "L31"
    ELSE IF at \in HandlerPcs THEN "L34"
    ELSE IF at = "L34" THEN "L35"
    ELSE IF at = "L35" THEN "L36"
    ELSE IF at = "L36" THEN "L37"
    ELSE "exited"

\* Where an exception raised by the statement at line `at` takes control:
\* outside the try it leaves the program, in the try body it goes to the
\* except clause, in the except clause to the finally block, and in the
\* finally block out of the program.
Route(at) ==
    IF at \in SetupPcs THEN "exited"
    ELSE IF at \in TryPcs THEN "L31"
    ELSE IF at \in HandlerPcs THEN "L34"
    ELSE "exited"

Raise(kind) ==
    /\ raised' = Append(raised, [kind |-> kind, at |-> pc])
    /\ exc' = kind
    /\ pc' = Route(pc)

Running == pc \in TryPcs

Stopped == pc \in HandlerPcs \cup FinallyPcs \cup {"exited"}

ExitStatus ==
    IF pc # "exited" THEN "alive"
    ELSE IF exc = "none" THEN "normal" ELSE "abnormal"

----------------------------------------------------------------------------
Init ==
    /\ pc = "L14"
    /\ exc = "none"
    /\ pa = "none"
    /\ stream = "none"
    /\ sock = "none"
    /\ data = <<>>
    /\ sent = <<>>
    /\ written = <<>>
    /\ released = <<>>
    /\ raised = <<>>

\* p = pyaudio.PyAudio()
CreatePyAudio ==
    /\ pc = "L14"
    /\ pa' = "live"
    /\ pc' = "L15"
    /\ UNCHANGED <<exc, stream, sock, data, sent, written, released, raised>>

\* stream = p.open(...)
OpenStream ==
    /\ pc = "L15"
    /\ stream' = "open"
    /\ pc' = "L22"
    /\ UNCHANGED <<exc, pa, sock, data, sent, written, released, raised>>

\* sock = socket.socket(AF_INET, SOCK_DGRAM)
CreateSocket ==
    /\ pc = "L22"
    /\ sock' = "created"
    /\ pc' = "L23"
    /\ UNCHANGED <<exc, pa, stream, data, sent, written, released, raised>>

\* sock.bind((UDP_IP, UDP_PORT))
Bind ==
    /\ pc = "L23"
    /\ sock' = "bound"
    /\ pc' = "L24"
    /\ UNCHANGED <<exc, pa, stream, data, sent, written, released, raised>>

\* print(...), then the try block and the loop are entered
PrintListening ==
    /\ pc = "L24"
    /\ pc' = "L28"
    /\ UNCHANGED <<exc, pa, stream, sock, data, sent, written, released, raised>>

\* data, _ = sock.recvfrom(4096): blocks until the network delivers d
RecvDatagram ==
    /\ pc = "L28"
    /\ Len(sent) < MaxDatagrams
    /\ \E d \in Datagrams :
          /\ sent' = Append(sent, d)
          /\ data' = Recvfrom(d, RECV_BUFSIZE)
    /\ pc' = "L29"
    /\ UNCHANGED <<exc, pa, stream, sock, written, released, raised>>

IfData_NoGuard ==
    /\ pc = "L29"
    /\ pc' = "L30"
    /\ UNCHANGED <<exc, pa, stream, sock, data, sent, written, released, raised>>

\* if data:
IfData ==
    /\ pc = "L29"
    /\ pc' = IF Len(data) > 0 THEN "L30" ELSE "L28"
    /\ UNCHANGED <<exc, pa, stream, sock, data, sent, written, released, raised>>

StreamWrite_OneChunkOfBytes ==
    /\ pc = "L30"
    /\ written' = Append(written, SubSeq(data, 1, Min(Len(data), CHUNK_SIZE)))
    /\ pc' = "L28"
    /\ UNCHANGED <<exc, pa, stream, sock, data, sent, released, raised>>

\* stream.write(data) returns; back to the head of while True
StreamWrite ==
    /\ pc = "L30"
    /\ written' = Append(written, data)
    /\ pc' = "L28"
    /\ UNCHANGED <<exc, pa, stream, sock, data, sent, released, raised>>

ExceptKeyboardInterrupt_CatchAll ==
    /\ pc = "L31"
    /\ exc' = "none"
    /\ pc' = "L32"
    /\ UNCHANGED <<pa, stream, sock, data, sent, written, released, raised>>

ExceptKeyboardInterrupt_Reraise ==
    /\ pc = "L31"
    /\ exc' = exc
    /\ pc' = "L34"
    /\ UNCHANGED <<pa, stream, sock, data, sent, written, released, raised>>

\* except KeyboardInterrupt: the clause matches KeyboardInterrupt only
ExceptKeyboardInterrupt ==
    /\ pc = "L31"
    /\ IF exc = "KeyboardInterrupt"
          THEN exc' = "none" /\ pc' = "L32"
          ELSE exc' = exc /\ pc' = "L34"
    /\ UNCHANGED <<pa, stream, sock, data, sent, written, released, raised>>

Pass_Continue ==
    /\ pc = "L32"
    /\ pc' = "L28"
    /\ UNCHANGED <<exc, pa, stream, sock, data, sent, written, released, raised>>

\* pass
Pass ==
    /\ pc = "L32"
    /\ pc' = "L34"
    /\ UNCHANGED <<exc, pa, stream, sock, data, sent, written, released, raised>>

\* stream.stop_stream()
StopStream ==
    /\ pc = "L34"
    /\ stream' = "stopped"
    /\ released' = Append(released, "stop_stream")
    /\ pc' = "L35"
    /\ UNCHANGED <<exc, pa, sock, data, sent, written, raised>>

\* stream.close()
CloseStream ==
    /\ pc = "L35"
    /\ stream' = "closed"
    /\ released' = Append(released, "close")
    /\ pc' = "L36"
    /\ UNCHANGED <<exc, pa, sock, data, sent, written, raised>>

\* p.terminate()
Terminate ==
    /\ pc = "L36"
    /\ pa' = "terminated"
    /\ released' = Append(released, "terminate")
    /\ pc' = "L37"
    /\ UNCHANGED <<exc, stream, sock, data, sent, written, raised>>

SockClose_Leak ==
    /\ pc = "L37"
    /\ pc' = "exited"
    /\ UNCHANGED <<exc, pa, stream, sock, data, sent, written, released, raised>>

\* sock.close(); the finally block ends and a pending exception propagates
SockClose ==
    /\ pc = "L37"
    /\ sock' = "closed"
    /\ released' = Append(released, "sock.close")
    /\ pc' = "exited"
    /\ UNCHANGED <<exc, pa, stream, data, sent, written, raised>>

\* The call at pc raises an exception other than KeyboardInterrupt (device
\* error, socket error).  A failing stream.write was still called.
Fail ==
    /\ pc \in FallibleCalls
    /\ Raise("error")
    /\ written' = IF pc = "L30" THEN Append(written, data) ELSE written
    /\ UNCHANGED <<pa, stream, sock, data, sent, released>>

\* SIGINT: the interpreter raises KeyboardInterrupt in place of the
\* statement at pc (a blocked recvfrom is at "L28", a write about to be
\* issued at "L30"; a signal arriving during write is raised after it
\* returns, at "L28").
Interrupt ==
    /\ pc # "exited"
    /\ Raise("KeyboardInterrupt")
    /\ UNCHANGED <<pa, stream, sock, data, sent, written, released>>

Next ==
    \/ CreatePyAudio
    \/ OpenStream
    \/ CreateSocket
    \/ Bind
    \/ PrintListening
    \/ RecvDatagram
    \/ IfData
    \/ StreamWrite
    \/ ExceptKeyboardInterrupt
    \/ Pass
    \/ StopStream
    \/ CloseStream
    \/ Terminate
    \/ SockClose
    \/ Fail
    \/ Interrupt

Spec == Init /\ [][Next]_vars

\* The interpreter keeps executing the single thread: every statement other
\* than the blocking recvfrom (which waits on the network) is eventually run.
ProgramStep ==
    \/ CreatePyAudio
    \/ OpenStream
    \/ CreateSocket
    \/ Bind
    \/ PrintListening
    \/ IfData
    \/ StreamWrite
    \/ ExceptKeyboardInterrupt
    \/ Pass
    \/ StopStream
    \/ CloseStream
    \/ Terminate
    \/ SockClose

FairSpec == Spec /\ WF_vars(ProgramStep)

----------------------------------------------------------------------------
(* Vocabulary of the properties *)

NonEmpty(s) == Len(s) > 0

\* The first RECV_BUFSIZE bytes of a datagram, written out byte by byte.
FirstBytes(d) ==
    IF Len(d) <= RECV_BUFSIZE THEN d ELSE [i \in 1..RECV_BUFSIZE |-> d[i]]

\* The run's only exceptional event so far is one `kind` raised at a line of `ats`.
OnlyRaised(kind, ats) ==
    /\ Len(raised) = 1
    /\ raised[1].kind = kind
    /\ raised[1].at \in ats

Count(call) == Cardinality({i \in 1..Len(released) : released[i] = call})

IsPrefix(s, t) == Len(s) <= Len(t) /\ \A i \in 1..Len(s) : s[i] = t[i]

----------------------------------------------------------------------------
\* C1 (as stated): with no interrupt or error so far, once the loop is back
\* at recvfrom after N datagrams, exactly N writes were issued and the i-th
\* write carries the i-th datagram byte for byte.
C1_EveryDatagramWritten ==
    (pc = "L28" /\ raised = <<>>) => written = sent

\* C1 (amended): with no interrupt or error so far, once the loop is back at
\* recvfrom, the writes issued are exactly the non-empty payloads recvfrom
\* returned, in the order it returned them, each being the first 4096 bytes
\* of its datagram (the whole datagram when it has at most 4096 bytes).
C1_NonEmptyPayloadsWrittenInOrder ==
    (pc = "L28" /\ raised = <<>>) =>
        written = SelectSeq([i \in 1..Len(sent) |-> FirstBytes(sent[i])], NonEmpty)

C1_Witness ==
    /\ pc = "L28"
    /\ raised = <<>>
    /\ Len(sent) = 3
    /\ sent[1] = ScenarioPayload
    /\ sent[2] = <<>>
    /\ Len(sent[3]) = RECV_BUFSIZE
    /\ written = <<sent[1], sent[3]>>

\* C2: a step taken from the guard with an empty payload issues no write
\* and, unless an exception is raised, returns to recvfrom with the loop
\* still running; at the head of the loop the number of writes issued equals
\* the number of non-empty datagrams received.
C2_EmptyPayloadSkipped ==
    /\ [][(pc = "L29" /\ data = <<>>) =>
            /\ written' = written
            /\ (raised' = raised => pc' = "L28")]_vars
    /\ [](pc = "L28" =>
            Len(written) = Cardinality({i \in 1..Len(sent) : sent[i] # <<>>}))

C2_Witness ==
    /\ pc = "L28"
    /\ raised = <<>>
    /\ sent = << <<>>, <<>> >>
    /\ written = <<>>

\* C3: no release call ever returns twice; when an interrupt arriving in the
\* relay loop (at recvfrom, at the guard or at write) is the run's only
\* exceptional event, the process exits with stop_stream, close, terminate
\* and sock.close each done exactly once; with no datagram received, no
\* write was issued.
C3_InterruptReleasesOnce ==
    /\ \A c \in {"stop_stream", "close", "terminate", "sock.close"} : Count(c) <= 1
    /\ (pc = "exited" /\ OnlyRaised("KeyboardInterrupt", TryPcs)) =>
          /\ \A c \in {"stop_stream", "close", "terminate", "sock.close"} : Count(c) = 1
          /\ stream = "closed"
          /\ pa = "terminated"
          /\ sock = "closed"
    /\ (sent = <<>> => written = <<>>)

C3_Witness ==
    /\ pc = "exited"
    /\ OnlyRaised("KeyboardInterrupt", {"L30"})
    /\ Len(written) = 2
    /\ Len(sent) = 3
    /\ Len(released) = 4
    /\ sock = "closed"

\* C4: when recvfrom or stream.write raises an error as the run's only
\* exceptional event, the except clause does not catch it (it stays in
\* flight through the finally block), the process exits abnormally only
\* after all four releases, and from the error on no datagram is received
\* and no write is issued (no retry).
C4_ErrorPropagatesAfterCleanup ==
    /\ []((OnlyRaised("error", TryPcs) /\ pc \in FinallyPcs \cup {"exited"}) =>
            exc = "error")
    /\ []((OnlyRaised("error", TryPcs) /\ pc = "exited") =>
            /\ released = ReleaseOrder
            /\ stream = "closed"
            /\ sock = "closed"
            /\ ExitStatus = "abnormal")
    /\ [][(raised # <<>> /\ raised[1].kind = "error" /\ raised[1].at \in TryPcs) =>
            /\ written' = written
            /\ sent' = sent
            /\ pc' \notin TryPcs]_vars

C4_Witness ==
    /\ pc = "exited"
    /\ OnlyRaised("error", {"L30"})
    /\ exc = "error"
    /\ released = ReleaseOrder
    /\ Len(written) = 1

\* C5 (as stated): on every exit of the process a stream that was opened is
\* stopped and closed, and a socket that was created is closed.
C5_ReleasedOnEveryExit ==
    pc = "exited" =>
        /\ (stream # "none" => stream = "closed")
        /\ (sock # "none" => sock = "closed")

\* C6: every write the loop issues carries the datagram just received if it
\* has at most 4096 bytes and its first 4096 bytes otherwise, as one write
\* call, and when the write returns the loop is back at recvfrom.
C6_TruncatedToBufsize ==
    [][(pc = "L30" /\ written' # written) =>
          /\ Len(written') = Len(written) + 1
          /\ LET d == sent[Len(sent)]
                 w == written'[Len(written')]
             IN  /\ Len(d) <= 4096 => w = d
                 /\ Len(d) > 4096 => Len(w) = 4096 /\ \A i \in 1..4096 : w[i] = d[i]
          /\ (raised' = raised => pc' = "L28")]_vars

C6_Witness ==
    /\ pc = "L28"
    /\ raised = <<>>
    /\ Len(sent) = 2
    /\ Len(sent[1]) = 4097
    /\ Len(sent[2]) = 4096
    /\ Len(written) = 2
    /\ Len(written[1]) = 4096
    /\ written[2] = sent[2]

\* C7: the loop starts RUNNING; it leaves RUNNING only by an interrupt or by
\* an error of recvfrom or stream.write; STOPPED is never left; in STOPPED,
\* and after any release call, no datagram is received and no write issued.
C7_TwoStateMachine ==
    /\ [][(pc = "L24" /\ pc' \notin {"L24", "exited"}) => Running']_vars
    /\ [][(Running /\ ~Running') =>
            /\ Stopped'
            /\ Len(raised') = Len(raised) + 1
            /\ LET e == raised'[Len(raised')]
               IN  \/ e.kind = "KeyboardInterrupt"
                   \/ e.kind = "error" /\ e.at \in {"L28", "L30"}]_vars
    /\ [][Stopped => Stopped']_vars
    /\ [][(Stopped \/ released # <<>>) =>
            /\ written' = written
            /\ sent' = sent]_vars

C7_Witness ==
    /\ pc = "exited"
    /\ Len(raised) = 1
    /\ raised[1].at = "L28"
    /\ raised[1].kind = "error"
    /\ Len(written) = 1
    /\ released = ReleaseOrder

\* C8: a KeyboardInterrupt raised in the relay loop is cleared by the except
\* clause and the process then eventually exits; when that interrupt is the
\* run's only exceptional event the exit is a normal termination; a run in
\* which an error was raised never exits normally.
C8_InterruptHandled ==
    /\ [][(pc = "L31" /\ exc = "KeyboardInterrupt" /\ raised' = raised) =>
            exc' = "none"]_vars
    /\ ((pc = "L31" /\ exc = "KeyboardInterrupt") ~> (pc = "exited"))
    /\ []((pc = "exited" /\ OnlyRaised("KeyboardInterrupt", TryPcs)) =>
            ExitStatus = "normal")
    /\ []((pc = "exited" /\ \E i \in 1..Len(raised) : raised[i].kind = "error") =>
            ExitStatus = "abnormal")

C8_Witness ==
    /\ pc = "exited"
    /\ OnlyRaised("KeyboardInterrupt", {"L28"})
    /\ ExitStatus = "normal"
    /\ sent = <<>>

\* C9 (as stated): the receive limit is larger than the byte size of one
\* full chunk of CHUNK_SIZE frames, so a packet carrying one full chunk is
\* returned whole by recvfrom and leaves room in the receive buffer.
C9_BufferLargerThanChunk ==
    (pc = "L29" /\ Len(sent[Len(sent)]) = CHUNK_SIZE * BytesPerFrame) =>
        /\ data = sent[Len(sent)]
        /\ RECV_BUFSIZE > CHUNK_SIZE * BytesPerFrame
        /\ Len(data) < RECV_BUFSIZE

\* C10: the release calls return in the order stop_stream, close,
\* terminate, sock.close; the socket is closed only after the three audio
\* releases returned; an exception in the finally block ends the process
\* with exactly the releases before the interrupted line done and the
\* socket not closed.
C10_CleanupInOrder ==
    /\ IsPrefix(released, ReleaseOrder)
    /\ (sock = "closed" => (stream = "closed" /\ pa = "terminated"))
    /\ \A k \in 1..4 :
          (/\ pc = "exited"
           /\ raised # <<>>
           /\ raised[Len(raised)].at = <<"L34", "L35", "L36", "L37">>[k]) =>
                /\ released = SubSeq(ReleaseOrder, 1, k - 1)
                /\ sock = "bound"

C10_Witness ==
    /\ pc = "exited"
    /\ Len(raised) = 2
    /\ raised[1].kind = "KeyboardInterrupt"
    /\ raised[2].kind = "error"
    /\ raised[2].at = "L36"
    /\ released = <<"stop_stream", "close">>
    /\ stream = "closed"
    /\ pa = "live"
    /\ sock = "bound"

====
